---- MODULE Spec2Model ----
(***************************************************************************)
(* Trip roster (routes/posts.js), conversation find-or-create              *)
(* (routes/chat.js) and the socket presence map (server.js) of the travel  *)
(* partner finder server.                                                  *)
(*                                                                         *)
(* Every route handler is an async function: between two awaits it runs    *)
(* without interruption, and at an await other requests' continuations may *)
(* run.  A handler is therefore a sequence of atomic steps, one per        *)
(* database round trip, and a request's position is kept in its pc.  The   *)
(* requests between two steps form the bag inflight; last is the response  *)
(* most recently sent.                                                     *)
(*                                                                         *)
(* No handler touches more than one Post document, so the roster part      *)
(* follows one trip: post is that document (NoPost until it is created),   *)
(* and a request that arrives before it exists sees findById return null.  *)
(*                                                                         *)
(* document.save() sends the changes made to the loaded document, not the  *)
(* document: an array push() is sent as $push, an assignment as $set of    *)
(* the assigned path.  A $set of a whole array is sent with the loaded     *)
(* version key (__v) in the filter and fails with a VersionError when the  *)
(* stored version differs; a $push only increments the version key.        *)
(***************************************************************************)
EXTENDS Integers, Sequences, FiniteSets, Bags, TLC

\* ---------------------------------------------------------------- bounds
NumUsers == 3
MaxReqs == 3
MaxCap == 3
MaxChatReqs == 3
NumSockets == 3
MaxMsgReqs == 3
ScenarioMax == 4

\* ------------------------------------------------------ program constants
MinParticipants == 2
MaxParticipants == 10
DefaultCurrentParticipants == 1
MaxContent == 1000

Users == 1..NumUsers

\* roster: the Post document, the users' trip lists, the requests in flight
VARIABLES post, tripsJoined, tripsCreated, inflight, nreq, last
\* conversations: the Chat collection and the find-or-create requests in flight
VARIABLES chats, chatInflight, nchat, chatLast
\* messages: the append and mark-read requests in flight, the server clock
VARIABLES msgInflight, nmsg, msgLast, now
\* presence: the sockets, socket.userId, the activeUsers map, the last emit
VARIABLES sockets, socketUserId, activeUsers, emitted

rosterVars == <<post, tripsJoined, tripsCreated, inflight, nreq, last>>
chatVars == <<chats, chatInflight, nchat, chatLast>>
msgVars == <<msgInflight, nmsg, msgLast, now>>
presenceVars == <<sockets, socketUserId, activeUsers, emitted>>
vars == <<rosterVars, chatVars, msgVars, presenceVars>>

\* ---------------------------------------------------------------- helpers
Range(s) == {s[i] : i \in 1..Len(s)}

includes(s, x) == \E i \in 1..Len(s) : s[i] = x

RECURSIVE filterNot(_, _)
filterNot(s, x) ==
    IF s = <<>> THEN <<>>
    ELSE IF Head(s) = x THEN filterNot(Tail(s), x)
         ELSE <<Head(s)>> \o filterNot(Tail(s), x)

NoDoc == [participants |-> <<>>, currentParticipants |-> 0, status |-> "none",
          statusModified |-> FALSE, v |-> 0]

Req(op, user, pc, doc) ==
    [op |-> op, user |-> user, pc |-> pc, doc |-> doc]

Response(op, user, resp) ==
    [op |-> op, user |-> user, resp |-> resp]

NoPost == [creator |-> 0, maxParticipants |-> 0, currentParticipants |-> 0,
           participants |-> <<>>, status |-> "absent", v |-> 0]

TripId == "trip"

Put(bag, q) == bag (+) SetToBag({q})

Take(bag, q) == bag (-) SetToBag({q})

Replace(bag, q, q2) == Put(Take(bag, q), q2)

\* A user id that no User document has.
Ghost == NumUsers + 1

ChatReq(me, other, pc) == [me |-> me, other |-> other, pc |-> pc]

ChatResponse(me, other, resp, chat) ==
    [me |-> me, other |-> other, resp |-> resp, chat |-> chat]

\* A request body's content: body characters with ws white-space characters
\* around them.
Content(ws, body) == [ws |-> ws, body |-> body]

length(c) == c.ws + c.body

\* String.prototype.trim as express-validator's trim() applies it
trim(c) == Content(0, c.body)

NoMessage == [id |-> 0, sender |-> 0, content |-> Content(0, 0), timestamp |-> 0,
              read |-> FALSE]

MsgReq(op, user, chat, pc, msg, lastMessage, v, dirty) ==
    [op |-> op, user |-> user, chat |-> chat, pc |-> pc, msg |-> msg,
     lastMessage |-> lastMessage, v |-> v, dirty |-> dirty]

MsgResponse(op, user, chat, resp, body) ==
    [op |-> op, user |-> user, chat |-> chat, resp |-> resp, body |-> body]

SocketIds == 1..NumSockets

Terminal(status) == status \in {"completed", "cancelled"}

\* ------------------------------------------------------------------- Init
Init ==
    /\ post = NoPost
    /\ tripsJoined = [u \in Users |-> <<>>]
    /\ tripsCreated = [u \in Users |-> <<>>]
    /\ inflight = EmptyBag
    /\ nreq = 0
    /\ last = Response("none", 0, "none")
    /\ chats = <<>>
    /\ chatInflight = EmptyBag
    /\ nchat = 0
    /\ chatLast = ChatResponse(0, 0, "none", 0)
    /\ msgInflight = EmptyBag
    /\ nmsg = 0
    /\ msgLast = MsgResponse("none", 0, 0, "none", NoMessage)
    /\ now = 0
    /\ sockets = [s \in SocketIds |-> "unopened"]
    /\ socketUserId = [s \in SocketIds |-> 0]
    /\ activeUsers = [u \in Users |-> 0]
    /\ emitted = 0

\* ------------------------------------------------------ POST /api/posts
NewPost(creator, maxParticipants) ==
    [creator |-> creator,
     maxParticipants |-> maxParticipants,
     currentParticipants |-> DefaultCurrentParticipants,
     participants |-> <<creator>>,
     status |-> "active",
     v |-> 0]

CreateValid(maxParticipants, future) ==
    /\ maxParticipants >= MinParticipants
    /\ maxParticipants <= MaxParticipants
    /\ future

\* The validators, the insert and the $push on the creator's tripsCreated.
\* Nothing reads tripsCreated, so the insert and the $push are one step.
CreateTrip(u, maxParticipants, future) ==
    /\ post = NoPost
    /\ IF CreateValid(maxParticipants, future)
       THEN /\ post' = NewPost(u, maxParticipants)
            /\ tripsCreated' = [tripsCreated EXCEPT ![u] = Append(@, TripId)]
            /\ last' = Response("create", u, "Created")
       ELSE /\ last' = Response("create", u, "ValidationError")
            /\ UNCHANGED <<post, tripsCreated>>
    /\ UNCHANGED <<tripsJoined, inflight, nreq>>
    /\ UNCHANGED <<chatVars, msgVars, presenceVars>>

\* ------------------------------------------- POST /api/posts/:id/join
\* The status check left out.
JoinCheckNoStatus(p, user) ==
    IF p.creator = user THEN "SelfJoin"
    ELSE IF includes(p.participants, user) THEN "AlreadyMember"
    ELSE IF p.currentParticipants >= p.maxParticipants THEN "Full"
    ELSE "ok"

\* The membership check left out.
JoinCheckNoMember(p, user) ==
    IF p.status # "active" THEN "InvalidState"
    ELSE IF p.creator = user THEN "SelfJoin"
    ELSE IF p.currentParticipants >= p.maxParticipants THEN "Full"
    ELSE "ok"

\* The checks of the handler, in the order of the code, on the loaded post.
JoinCheck(p, user) ==
    IF p.status # "active" THEN "InvalidState"
    ELSE IF p.creator = user THEN "SelfJoin"
    ELSE IF includes(p.participants, user) THEN "AlreadyMember"
    ELSE IF p.currentParticipants >= p.maxParticipants THEN "Full"
    ELSE "ok"

\* The capacity test off by one: > for >=.
JoinDocOffByOne(p, user) ==
    [participants |-> Append(p.participants, user),
     currentParticipants |-> p.currentParticipants + 1,
     status |-> IF p.currentParticipants + 1 > p.maxParticipants
                THEN "full" ELSE p.status,
     statusModified |-> p.currentParticipants + 1 > p.maxParticipants,
     v |-> p.v]

\* The loaded document after the handler's changes, before save().
JoinDoc(p, user) ==
    [participants |-> Append(p.participants, user),
     currentParticipants |-> p.currentParticipants + 1,
     status |-> IF p.currentParticipants + 1 >= p.maxParticipants
                THEN "full" ELSE p.status,
     statusModified |-> p.currentParticipants + 1 >= p.maxParticipants,
     v |-> p.v]

\* findById and the synchronous code up to the await of save().
JoinRead(u) ==
    /\ nreq' = nreq + 1
    /\ IF post = NoPost
       THEN /\ last' = Response("join", u, "NotFound")
            /\ UNCHANGED inflight
       ELSE IF JoinCheck(post, u) # "ok"
       THEN /\ last' = Response("join", u, JoinCheck(post, u))
            /\ UNCHANGED inflight
       ELSE /\ inflight' = Put(inflight, Req("join", u, "save", JoinDoc(post, u)))
            /\ UNCHANGED last
    /\ UNCHANGED <<post, tripsJoined, tripsCreated>>
    /\ UNCHANGED <<chatVars, msgVars, presenceVars>>

\* save(): $push of the new participant, $set of the assigned paths, $inc __v.
JoinSaved(stored, doc, user) ==
    [stored EXCEPT !.participants = Append(@, user),
                   !.currentParticipants = doc.currentParticipants,
                   !.status = IF doc.statusModified THEN doc.status ELSE @,
                   !.v = @ + 1]

JoinSave(q) ==
    /\ q.op = "join"
    /\ q.pc = "save"
    /\ post' = JoinSaved(post, q.doc, q.user)
    /\ inflight' = Replace(inflight, q, Req("join", q.user, "user", NoDoc))
    /\ UNCHANGED <<tripsJoined, tripsCreated, nreq, last>>
    /\ UNCHANGED <<chatVars, msgVars, presenceVars>>

\* User.findByIdAndUpdate($push tripsJoined), then the response.
JoinUserUpdate(q) ==
    /\ q.op = "join"
    /\ q.pc = "user"
    /\ tripsJoined' = [tripsJoined EXCEPT ![q.user] = Append(@, TripId)]
    /\ inflight' = Take(inflight, q)
    /\ last' = Response("join", q.user, "ok")
    /\ UNCHANGED <<post, tripsCreated, nreq>>
    /\ UNCHANGED <<chatVars, msgVars, presenceVars>>

\* ------------------------------------------ POST /api/posts/:id/leave
\* The creator check left out.
LeaveCheckNoCreator(p, user) ==
    IF ~includes(p.participants, user) THEN "NotMember"
    ELSE "ok"

\* The membership check left out.
LeaveCheckNoMember(p, user) ==
    IF p.creator = user THEN "CreatorCannotLeave"
    ELSE "ok"

LeaveCheck(p, user) ==
    IF p.creator = user THEN "CreatorCannotLeave"
    ELSE IF ~includes(p.participants, user) THEN "NotMember"
    ELSE "ok"

\* The status left as it was loaded.
LeaveDocKeepStatus(p, user) ==
    [participants |-> filterNot(p.participants, user),
     currentParticipants |-> p.currentParticipants - 1,
     status |-> p.status,
     statusModified |-> FALSE,
     v |-> p.v]

\* The loaded document after the handler's changes, before save().
LeaveDoc(p, user) ==
    [participants |-> filterNot(p.participants, user),
     currentParticipants |-> p.currentParticipants - 1,
     status |-> IF p.status = "full" THEN "active" ELSE p.status,
     statusModified |-> p.status = "full",
     v |-> p.v]

LeaveRead(u) ==
    /\ nreq' = nreq + 1
    /\ IF post = NoPost
       THEN /\ last' = Response("leave", u, "NotFound")
            /\ UNCHANGED inflight
       ELSE IF LeaveCheck(post, u) # "ok"
       THEN /\ last' = Response("leave", u, LeaveCheck(post, u))
            /\ UNCHANGED inflight
       ELSE /\ inflight' = Put(inflight, Req("leave", u, "save", LeaveDoc(post, u)))
            /\ UNCHANGED last
    /\ UNCHANGED <<post, tripsJoined, tripsCreated>>
    /\ UNCHANGED <<chatVars, msgVars, presenceVars>>

\* save(): $set of the reassigned array and the assigned paths, filtered on
\* the loaded __v and incrementing it.
LeaveSaved(stored, doc) ==
    [stored EXCEPT !.participants = doc.participants,
                   !.currentParticipants = doc.currentParticipants,
                   !.status = IF doc.statusModified THEN doc.status ELSE @,
                   !.v = @ + 1]

LeaveSave(q) ==
    /\ q.op = "leave"
    /\ q.pc = "save"
    /\ IF post.v = q.doc.v
       THEN /\ post' = LeaveSaved(post, q.doc)
            /\ inflight' = Replace(inflight, q, Req("leave", q.user, "user", NoDoc))
            /\ UNCHANGED last
       ELSE \* VersionError, caught: 500
            /\ inflight' = Take(inflight, q)
            /\ last' = Response("leave", q.user, "ServerError")
            /\ UNCHANGED post
    /\ UNCHANGED <<tripsJoined, tripsCreated, nreq>>
    /\ UNCHANGED <<chatVars, msgVars, presenceVars>>

\* User.findByIdAndUpdate($pull tripsJoined), then the response.
LeaveUserUpdate(q) ==
    /\ q.op = "leave"
    /\ q.pc = "user"
    /\ tripsJoined' = [tripsJoined EXCEPT ![q.user] = filterNot(@, TripId)]
    /\ inflight' = Take(inflight, q)
    /\ last' = Response("leave", q.user, "ok")
    /\ UNCHANGED <<post, tripsCreated, nreq>>
    /\ UNCHANGED <<chatVars, msgVars, presenceVars>>

\* --------------------------------------- completion / cancellation signal
\* No route writes 'completed' or 'cancelled'; the schema admits them and the
\* signal comes from outside the routes.
ExternalTerminate(s) ==
    /\ post.status \in {"active", "full"}
    /\ post' = [post EXCEPT !.status = s]
    /\ UNCHANGED <<tripsJoined, tripsCreated, inflight, nreq, last>>
    /\ UNCHANGED <<chatVars, msgVars, presenceVars>>

\* ------------------------------------------------ GET /api/chat/:userId
\* The filter matching the array as written: [a, b] in this order.
MatchesAllOrdered(chat, a, b) == chat.participants = <<a, b>>

\* { participants: { $all: [a, b] } }
MatchesAll(chat, a, b) ==
    /\ includes(chat.participants, a)
    /\ includes(chat.participants, b)

\* findOne: the first matching document, 0 for null.
FindOne(a, b) ==
    IF \E i \in 1..Len(chats) : MatchesAll(chats[i], a, b)
    THEN CHOOSE i \in 1..Len(chats) :
            /\ MatchesAll(chats[i], a, b)
            /\ \A j \in 1..(i - 1) : ~MatchesAll(chats[j], a, b)
    ELSE 0

\* The Chat schema's defaults: a message is stored unread, a chat's lastMessage
\* starts at its creation time (time 0 of the model).
DefaultRead == FALSE

DefaultLastMessage == 0

NewChat(me, other) ==
    [participants |-> <<me, other>>, messages |-> <<>>,
     lastMessage |-> DefaultLastMessage, v |-> 0]

\* User.findById(userId): 404 when the other user does not exist.
ChatLookupUser(me, other) ==
    /\ nchat < MaxChatReqs
    /\ nchat' = nchat + 1
    /\ IF other \notin Users
       THEN /\ chatLast' = ChatResponse(me, other, "NotFound", 0)
            /\ UNCHANGED chatInflight
       ELSE /\ chatInflight' = Put(chatInflight, ChatReq(me, other, "find"))
            /\ UNCHANGED chatLast
    /\ UNCHANGED chats
    /\ UNCHANGED <<rosterVars, msgVars, presenceVars>>

\* Chat.findOne: an existing chat is returned, otherwise a new one is built.
ChatFind(q) ==
    /\ q.pc = "find"
    /\ IF FindOne(q.me, q.other) # 0
       THEN /\ chatInflight' = Take(chatInflight, q)
            /\ chatLast' = ChatResponse(q.me, q.other, "ok", FindOne(q.me, q.other))
       ELSE /\ chatInflight' = Replace(chatInflight, q, ChatReq(q.me, q.other, "save"))
            /\ UNCHANGED chatLast
    /\ UNCHANGED <<chats, nchat>>
    /\ UNCHANGED <<rosterVars, msgVars, presenceVars>>

\* chat.save() of the new document, then the response with it.
ChatSave(q) ==
    /\ q.pc = "save"
    /\ chats' = Append(chats, NewChat(q.me, q.other))
    /\ chatInflight' = Take(chatInflight, q)
    /\ chatLast' = ChatResponse(q.me, q.other, "ok", Len(chats) + 1)
    /\ UNCHANGED nchat
    /\ UNCHANGED <<rosterVars, msgVars, presenceVars>>

\* ------------------------------------------------------ chat messages
\* isLength({ min: 1, max: 1000 }) without the trim() before it.
ValidContentUntrimmed(content) ==
    /\ length(content) >= 1
    /\ length(content) <= MaxContent

\* body('content').trim().isLength({ min: 1, max: 1000 })
ValidContent(content) ==
    /\ length(trim(content)) >= 1
    /\ length(trim(content)) <= MaxContent

\* The checks of POST /:chatId/messages in the order the handler makes them.
AppendCheck(c, user, content) ==
    IF ~ValidContent(content) THEN "ValidationError"
    ELSE IF c \notin 1..Len(chats) THEN "NotFound"
    ELSE IF ~includes(chats[c].participants, user) THEN "Forbidden"
    ELSE "ok"

\* newMessage as the subdocument pushed: the content is the trimmed one.
NewMessage(id, user, content, t) ==
    [id |-> id, sender |-> user, content |-> trim(content), timestamp |-> t,
     read |-> DefaultRead]

\* POST /:chatId/messages up to save(): validation, findById, the
\* participant check, the two new Date() readings, the push. The handler
\* runs at a later clock reading than the one before it; its second reading
\* is the same as its first or one later.
AppendFind(u, c, content) ==
    /\ nmsg < MaxMsgReqs
    /\ nmsg' = nmsg + 1
    /\ IF AppendCheck(c, u, content) # "ok"
       THEN /\ msgLast' = MsgResponse("append", u, c, AppendCheck(c, u, content), NoMessage)
            /\ UNCHANGED <<msgInflight, now>>
       ELSE /\ \E d2 \in 0..1 :
                  /\ now' = now + 1 + d2
                  /\ msgInflight' =
                        Put(msgInflight,
                            MsgReq("append", u, c, "save",
                                   NewMessage(nmsg + 1, u, content, now + 1),
                                   now + 1 + d2, chats[c].v, {}))
            /\ UNCHANGED msgLast
    /\ UNCHANGED chats
    /\ UNCHANGED <<chatInflight, nchat, chatLast>>
    /\ UNCHANGED <<rosterVars, presenceVars>>

\* A save that writes the new message over the last one stored.
AppendSavedOverLast(stored, q) ==
    [stored EXCEPT !.messages = IF @ = <<>> THEN <<q.msg>>
                                ELSE [@ EXCEPT ![Len(@)] = q.msg],
                   !.lastMessage = q.lastMessage,
                   !.v = @ + 1]

\* chat.save() after a push: $push messages, $set lastMessage, $inc __v.
AppendSaved(stored, q) ==
    [stored EXCEPT !.messages = Append(@, q.msg),
                   !.lastMessage = q.lastMessage,
                   !.v = @ + 1]

AppendSave(q) ==
    /\ q.op = "append"
    /\ q.pc = "save"
    /\ chats' = [chats EXCEPT ![q.chat] = AppendSaved(@, q)]
    /\ msgInflight' = Replace(msgInflight, q, [q EXCEPT !.pc = "reread"])
    /\ UNCHANGED <<nmsg, msgLast, now>>
    /\ UNCHANGED <<chatInflight, nchat, chatLast>>
    /\ UNCHANGED <<rosterVars, presenceVars>>

\* Chat.findById again; sentMessage is the last element of what it returns.
AppendRespond(q) ==
    /\ q.op = "append"
    /\ q.pc = "reread"
    /\ msgLast' = MsgResponse("append", q.user, q.chat, "ok",
                              chats[q.chat].messages[Len(chats[q.chat].messages)])
    /\ msgInflight' = Take(msgInflight, q)
    /\ UNCHANGED <<nmsg, now>>
    /\ UNCHANGED chatVars
    /\ UNCHANGED <<rosterVars, presenceVars>>

\* The checks without the one on the participants.
MarkReadCheckNoParticipant(c, user) ==
    IF c \notin 1..Len(chats) THEN "NotFound" ELSE "ok"

\* The checks of PUT /:chatId/read.
MarkReadCheck(c, user) ==
    IF c \notin 1..Len(chats) THEN "NotFound"
    ELSE IF ~includes(chats[c].participants, user) THEN "Forbidden"
    ELSE "ok"

\* The forEach: the positions whose read flag the assignment changes.
MarkReadDirty(chat, user) ==
    {i \in 1..Len(chat.messages) :
        chat.messages[i].sender # user /\ ~chat.messages[i].read}

\* PUT /:chatId/read up to save().
MarkReadFind(u, c) ==
    /\ nmsg < MaxMsgReqs
    /\ nmsg' = nmsg + 1
    /\ IF MarkReadCheck(c, u) # "ok"
       THEN /\ msgLast' = MsgResponse("read", u, c, MarkReadCheck(c, u), NoMessage)
            /\ UNCHANGED msgInflight
       ELSE /\ msgInflight' =
                  Put(msgInflight,
                      MsgReq("read", u, c, "save", NoMessage, 0, chats[c].v,
                             MarkReadDirty(chats[c], u)))
            /\ UNCHANGED msgLast
    /\ UNCHANGED now
    /\ UNCHANGED chatVars
    /\ UNCHANGED <<rosterVars, presenceVars>>

\* A save that writes nothing.
MarkReadSavedNothing(stored, q) == stored

\* chat.save() after the forEach: $set messages.<i>.read for the changed
\* positions, filtered on the __v that was loaded.
MarkReadSaved(stored, q) ==
    [stored EXCEPT !.messages =
        [i \in 1..Len(@) |-> IF i \in q.dirty THEN [@[i] EXCEPT !.read = TRUE] ELSE @[i]]]

MarkReadSave(q) ==
    /\ q.op = "read"
    /\ q.pc = "save"
    /\ msgInflight' = Take(msgInflight, q)
    /\ IF q.dirty = {}
       THEN /\ msgLast' = MsgResponse("read", q.user, q.chat, "ok", NoMessage)
            /\ UNCHANGED chats
       ELSE IF chats[q.chat].v # q.v
       THEN /\ msgLast' = MsgResponse("read", q.user, q.chat, "ServerError", NoMessage)
            /\ UNCHANGED chats
       ELSE /\ msgLast' = MsgResponse("read", q.user, q.chat, "ok", NoMessage)
            /\ chats' = [chats EXCEPT ![q.chat] = MarkReadSaved(@, q)]
    /\ UNCHANGED <<nmsg, now>>
    /\ UNCHANGED <<chatInflight, nchat, chatLast>>
    /\ UNCHANGED <<rosterVars, presenceVars>>

\* chat.messages.filter(msg => msg.sender !== me).length
RECURSIVE unreadCountAll(_, _)
unreadCountAll(messages, user) ==
    IF messages = <<>> THEN 0
    ELSE (IF Head(messages).sender # user THEN 1 ELSE 0)
         + unreadCountAll(Tail(messages), user)

\* chat.messages.filter(msg => msg.sender !== me && !msg.read).length
RECURSIVE unreadCount(_, _)
unreadCount(messages, user) ==
    IF messages = <<>> THEN 0
    ELSE (IF Head(messages).sender # user /\ ~Head(messages).read THEN 1 ELSE 0)
         + unreadCount(Tail(messages), user)

\* Chat.find({ participants: me })
ChatsOf(user) == {i \in 1..Len(chats) : includes(chats[i].participants, user)}

\* .sort({ lastMessage: -1 }): any order of the user's chats in which
\* lastMessage does not increase.
SortedByLastMessage(user) ==
    {order \in [1..Cardinality(ChatsOf(user)) -> ChatsOf(user)] :
        /\ \A i, j \in DOMAIN order : i # j => order[i] # order[j]
        /\ \A i, j \in DOMAIN order :
              i < j => chats[order[i]].lastMessage >= chats[order[j]].lastMessage}

\* GET /conversations
ListConversations(u) ==
    /\ nmsg < MaxMsgReqs
    /\ nmsg' = nmsg + 1
    /\ \E order \in SortedByLastMessage(u) :
          msgLast' = MsgResponse("list", u, 0, "ok",
                        [k \in DOMAIN order |->
                            [id |-> order[k],
                             unreadCount |-> unreadCount(chats[order[k]].messages, u)]])
    /\ UNCHANGED <<msgInflight, now>>
    /\ UNCHANGED chatVars
    /\ UNCHANGED <<rosterVars, presenceVars>>

\* ------------------------------------------------------- socket events
Connect(s) ==
    /\ sockets[s] = "unopened"
    /\ \A s2 \in 1..(s - 1) : sockets[s2] # "unopened"
    /\ sockets' = [sockets EXCEPT ![s] = "open"]
    /\ UNCHANGED <<socketUserId, activeUsers, emitted>>
    /\ UNCHANGED <<rosterVars, chatVars, msgVars>>

\* A join that keeps the entry the user already has.
SocketJoinKeepFirst(s, userId) ==
    /\ sockets[s] = "open"
    /\ activeUsers' = IF activeUsers[userId] = 0
                      THEN [activeUsers EXCEPT ![userId] = s]
                      ELSE activeUsers
    /\ socketUserId' = [socketUserId EXCEPT ![s] = userId]
    /\ UNCHANGED <<sockets, emitted>>
    /\ UNCHANGED <<rosterVars, chatVars, msgVars>>

\* socket.on('join')
SocketJoin(s, userId) ==
    /\ sockets[s] = "open"
    /\ activeUsers' = [activeUsers EXCEPT ![userId] = s]
    /\ socketUserId' = [socketUserId EXCEPT ![s] = userId]
    /\ UNCHANGED <<sockets, emitted>>
    /\ UNCHANGED <<rosterVars, chatVars, msgVars>>

\* A sendMessage that emits to whatever the map returns.
SendMessageNoCheck(s, receiverId) ==
    /\ sockets[s] = "open"
    /\ emitted' = IF receiverId \in Users THEN activeUsers[receiverId] ELSE 0
    /\ UNCHANGED <<sockets, socketUserId, activeUsers>>
    /\ UNCHANGED <<rosterVars, chatVars, msgVars>>

\* socket.on('sendMessage'): emitted is the socket id the event went to.
SendMessage(s, receiverId) ==
    /\ sockets[s] = "open"
    /\ IF receiverId \in Users /\ activeUsers[receiverId] # 0
       THEN emitted' = activeUsers[receiverId]
       ELSE UNCHANGED emitted
    /\ UNCHANGED <<sockets, socketUserId, activeUsers>>
    /\ UNCHANGED <<rosterVars, chatVars, msgVars>>

\* socket.on('disconnect')
Disconnect(s) ==
    /\ sockets[s] = "open"
    /\ sockets' = [sockets EXCEPT ![s] = "closed"]
    /\ IF socketUserId[s] # 0
       THEN activeUsers' = [activeUsers EXCEPT ![socketUserId[s]] = 0]
       ELSE UNCHANGED activeUsers
    /\ UNCHANGED <<socketUserId, emitted>>
    /\ UNCHANGED <<rosterVars, chatVars, msgVars>>

\* ------------------------------------------------------------------ Next
CreateInputs == (1..MaxCap) \cup {MaxParticipants + 1}

Next ==
    \/ \E u \in Users, m \in CreateInputs, f \in BOOLEAN : CreateTrip(u, m, f)
    \/ \E u \in Users : nreq < MaxReqs /\ JoinRead(u)
    \/ \E q \in BagToSet(inflight) : JoinSave(q)
    \/ \E q \in BagToSet(inflight) : JoinUserUpdate(q)
    \/ \E u \in Users : nreq < MaxReqs /\ LeaveRead(u)
    \/ \E q \in BagToSet(inflight) : LeaveSave(q)
    \/ \E q \in BagToSet(inflight) : LeaveUserUpdate(q)
    \/ \E s \in {"completed", "cancelled"} : ExternalTerminate(s)

Spec == Init /\ [][Next]_vars

\* One trip of up to ScenarioMax places among ScenarioMax users, the requests
\* made one after the other.
ScenarioUsers == 1..ScenarioMax

ScenarioInit ==
    /\ post = NoPost
    /\ tripsJoined = [u \in ScenarioUsers |-> <<>>]
    /\ tripsCreated = [u \in ScenarioUsers |-> <<>>]
    /\ inflight = EmptyBag
    /\ nreq = 0
    /\ last = Response("none", 0, "none")
    /\ chats = <<>>
    /\ chatInflight = EmptyBag
    /\ nchat = 0
    /\ chatLast = ChatResponse(0, 0, "none", 0)
    /\ msgInflight = EmptyBag
    /\ nmsg = 0
    /\ msgLast = MsgResponse("none", 0, 0, "none", NoMessage)
    /\ now = 0
    /\ sockets = [s \in SocketIds |-> "unopened"]
    /\ socketUserId = [s \in SocketIds |-> 0]
    /\ activeUsers = [u \in Users |-> 0]
    /\ emitted = 0

ScenarioNext ==
    \/ \E u \in ScenarioUsers, m \in 1..ScenarioMax, f \in BOOLEAN : CreateTrip(u, m, f)
    \/ \E u \in ScenarioUsers :
           inflight = EmptyBag /\ nreq < ScenarioMax /\ JoinRead(u)
    \/ \E q \in BagToSet(inflight) : JoinSave(q)
    \/ \E q \in BagToSet(inflight) : JoinUserUpdate(q)
    \/ \E u \in ScenarioUsers :
           inflight = EmptyBag /\ nreq < ScenarioMax /\ LeaveRead(u)
    \/ \E q \in BagToSet(inflight) : LeaveSave(q)
    \/ \E q \in BagToSet(inflight) : LeaveUserUpdate(q)

ScenarioSpec == ScenarioInit /\ [][ScenarioNext]_vars

ChatNext ==
    \/ \E me \in Users, other \in Users \cup {Ghost} : ChatLookupUser(me, other)
    \/ \E q \in BagToSet(chatInflight) : ChatFind(q)
    \/ \E q \in BagToSet(chatInflight) : ChatSave(q)

ChatSpec == Init /\ [][ChatNext]_vars

\* The same requests issued one after the other: a request starts only when
\* the one before it has been answered.
ChatSeqNext ==
    \/ \E me \in Users, other \in Users \cup {Ghost} :
           chatInflight = EmptyBag /\ ChatLookupUser(me, other)
    \/ \E q \in BagToSet(chatInflight) : ChatFind(q)
    \/ \E q \in BagToSet(chatInflight) : ChatSave(q)

ChatSeqSpec == Init /\ [][ChatSeqNext]_vars

\* The chat the message requests work on: user 1 opened it with user 2.
MsgChats == <<NewChat(1, 2)>>

MsgInit ==
    /\ post = NoPost
    /\ tripsJoined = [u \in Users |-> <<>>]
    /\ tripsCreated = [u \in Users |-> <<>>]
    /\ inflight = EmptyBag
    /\ nreq = 0
    /\ last = Response("none", 0, "none")
    /\ chats = MsgChats
    /\ chatInflight = EmptyBag
    /\ nchat = 1
    /\ chatLast = ChatResponse(1, 2, "ok", 1)
    /\ msgInflight = EmptyBag
    /\ nmsg = 0
    /\ msgLast = MsgResponse("none", 0, 0, "none", NoMessage)
    /\ now = 0
    /\ sockets = [s \in SocketIds |-> "unopened"]
    /\ socketUserId = [s \in SocketIds |-> 0]
    /\ activeUsers = [u \in Users |-> 0]
    /\ emitted = 0

ContentInputs == {Content(w, b) : w \in {0, 1}, b \in {0, MaxContent, MaxContent + 1}}

ChatIdInputs == 1..(Len(MsgChats) + 1)

MsgNext ==
    \/ \E u \in Users, c \in ChatIdInputs, content \in ContentInputs : AppendFind(u, c, content)
    \/ \E q \in BagToSet(msgInflight) : AppendSave(q)
    \/ \E q \in BagToSet(msgInflight) : AppendRespond(q)
    \/ \E u \in Users, c \in ChatIdInputs : MarkReadFind(u, c)
    \/ \E q \in BagToSet(msgInflight) : MarkReadSave(q)
    \/ \E u \in Users : ListConversations(u)

MsgSpec == MsgInit /\ [][MsgNext]_vars

\* The same requests issued one after the other.
MsgSeqNext ==
    \/ \E u \in Users, c \in ChatIdInputs, content \in ContentInputs :
           msgInflight = EmptyBag /\ AppendFind(u, c, content)
    \/ \E q \in BagToSet(msgInflight) : AppendSave(q)
    \/ \E q \in BagToSet(msgInflight) : AppendRespond(q)
    \/ \E u \in Users, c \in ChatIdInputs :
           msgInflight = EmptyBag /\ MarkReadFind(u, c)
    \/ \E q \in BagToSet(msgInflight) : MarkReadSave(q)
    \/ \E u \in Users : msgInflight = EmptyBag /\ ListConversations(u)

MsgSeqSpec == MsgInit /\ [][MsgSeqNext]_vars

PresenceNext ==
    \/ \E s \in SocketIds : Connect(s)
    \/ \E s \in SocketIds, u \in Users : SocketJoin(s, u)
    \/ \E s \in SocketIds, u \in Users \cup {Ghost} : SendMessage(s, u)
    \/ \E s \in SocketIds : Disconnect(s)

PresenceSpec == Init /\ [][PresenceNext]_vars

\* ================================================================ claims

Exists == post # NoPost

Member(u) == includes(post.participants, u)

\* C1: the number of entries in participants never exceeds maxParticipants,
\* whatever the interleaving of the Join requests' reads and writes.
C1_ParticipantsWithinCapacity ==
    Exists => Len(post.participants) <= post.maxParticipants

\* C2: the stored counter currentParticipants equals the length of the
\* participants list in every reachable state.
C2_CounterEqualsRoster ==
    Exists => post.currentParticipants = Len(post.participants)

\* C3: while the trip is neither completed nor cancelled, its status is 'full'
\* exactly when the number of participants has reached maxParticipants, and
\* 'active' otherwise.
C3_FullIffAtCapacity ==
    (Exists /\ ~Terminal(post.status)) =>
        /\ post.status \in {"active", "full"}
        /\ (post.status = "full") <=> (Len(post.participants) >= post.maxParticipants)

\* C6: a Leave request that finds the trip completed or cancelled is rejected
\* and changes nothing.  The rejection is InvalidState; for the creator and for
\* a non-member the rejection the handler documents for them is accepted too,
\* so that the formula fails only where a Leave is let through.
C6_LeaveRejectedOnceTerminal ==
    [][\A u \in Users :
        (Exists /\ Terminal(post.status) /\ LeaveRead(u)) =>
            /\ inflight' = inflight
            /\ post' = post
            /\ last'.op = "leave"
            /\ last'.user = u
            /\ \/ last'.resp = "InvalidState"
               \/ u = post.creator /\ last'.resp = "CreatorCannotLeave"
               \/ ~Member(u) /\ last'.resp = "NotMember"]_vars

\* C7: a Join request that finds the trip with a status other than 'active'
\* (full, completed, cancelled) ends with the invalid-state error and changes
\* neither participants, currentParticipants, status nor tripsJoined.
C7_JoinRejectedUnlessActive ==
    [][\A u \in Users :
        (Exists /\ post.status # "active" /\ JoinRead(u)) =>
            /\ last' = Response("join", u, "InvalidState")
            /\ inflight' = inflight
            /\ post' = post
            /\ tripsJoined' = tripsJoined]_vars

C7_Witness ==
    /\ Exists
    /\ Terminal(post.status)
    /\ last.op = "join"
    /\ last.resp = "InvalidState"
    /\ Len(post.participants) < post.maxParticipants

\* A newly created trip of capacity 2: the creator alone, never written since.
FreshPair ==
    /\ Exists
    /\ post.maxParticipants = 2
    /\ post.v = 0
    /\ post.status = "active"
    /\ post.participants = <<post.creator>>

\* A trip of capacity 2 holding the creator and one joiner, status full.
FullPair ==
    /\ Exists
    /\ post.maxParticipants = 2
    /\ post.status = "full"
    /\ Len(post.participants) = 2

\* The first Join on a trip of capacity 2 makes it full.
FirstJoinFills ==
    \A q \in BagToSet(inflight) :
        (FreshPair /\ JoinSave(q)) =>
            /\ post'.status = "full"
            /\ post'.participants = <<post.creator, q.user>>
            /\ post'.currentParticipants = 2

\* C8 as stated: maxParticipants = 2, the creator plus one Join make the trip
\* full, and the Join of a third user then fails with the Full error.
C8_ThirdJoinFailsFull ==
    [][/\ FirstJoinFills
       /\ \A u \in Users :
            (FullPair /\ u # post.creator /\ ~Member(u) /\ JoinRead(u)) =>
                last' = Response("join", u, "Full")]_vars

\* C8 amended: maxParticipants = 2, the creator plus one Join make the trip
\* full, and the Join of a third user then fails with the invalid-state error
\* (the status check comes before the capacity check), the trip unchanged.
C8_ThirdJoinFailsInvalidState ==
    [][/\ FirstJoinFills
       /\ \A u \in Users :
            (FullPair /\ u # post.creator /\ ~Member(u) /\ JoinRead(u)) =>
                /\ last' = Response("join", u, "InvalidState")
                /\ inflight' = inflight
                /\ post' = post]_vars

C8_Witness ==
    /\ FullPair
    /\ post.v = 1
    /\ post.currentParticipants = 2
    /\ last.op = "join"
    /\ last.resp = "InvalidState"
    /\ last.user # post.creator
    /\ ~Member(last.user)

\* C9: the creator is in participants in every reachable state of the trip,
\* and a Leave by the creator ends with CreatorCannotLeave without being let
\* through to save().
C9_CreatorAlwaysMember ==
    /\ [](Exists => Member(post.creator))
    /\ [][\A u \in Users :
            (Exists /\ u = post.creator /\ LeaveRead(u)) =>
                /\ last' = Response("leave", u, "CreatorCannotLeave")
                /\ inflight' = inflight
                /\ post' = post]_vars

\* The creator was refused after another member joined and left again.
C9_Witness ==
    /\ Exists
    /\ last = Response("leave", post.creator, "CreatorCannotLeave")
    /\ post.v >= 2
    /\ post.participants = <<post.creator>>

\* C10: participants holds no user id twice, also after two concurrent Joins
\* of the same user.
C10_ParticipantsUnique ==
    \A i, j \in 1..Len(post.participants) :
        i # j => post.participants[i] # post.participants[j]

\* C4: at most one conversation is stored per unordered pair of users,
\* whatever the interleaving of the find-or-create requests.
C4_OneChatPerPair ==
    \A i, j \in 1..Len(chats) :
        i # j => Range(chats[i].participants) # Range(chats[j].participants)

\* C5: a disconnect removes the user's entry only if the stored handle is the
\* disconnecting socket; an entry that a later join has pointed at another
\* socket is kept.
C5_UnregisterGuardedByHandle ==
    [][\A s \in SocketIds :
        Disconnect(s) =>
            activeUsers' =
                IF socketUserId[s] # 0 /\ activeUsers[socketUserId[s]] = s
                THEN [activeUsers EXCEPT ![socketUserId[s]] = 0]
                ELSE activeUsers]_vars

\* C11 as stated: after a Join by a non-creator user has succeeded, a second
\* Join by the same user, with no request in between, fails with
\* AlreadyMember, whatever the capacity of the trip.
C11_SecondJoinAlreadyMember ==
    [][\A u \in Users :
        (/\ Exists
         /\ last = Response("join", u, "ok")
         /\ inflight = EmptyBag
         /\ Member(u)
         /\ ~Terminal(post.status)
         /\ JoinRead(u)) =>
            last' = Response("join", u, "AlreadyMember")]_vars

\* C11 amended: a Join by a non-creator user who is already a member is
\* rejected and changes nothing: with AlreadyMember while the trip is still
\* active, with the invalid-state error once it is not (the first Join filled
\* it), because the status check comes before the membership check.
C11_SecondJoinRejected ==
    [][\A u \in Users :
        (Exists /\ u # post.creator /\ Member(u) /\ JoinRead(u)) =>
            /\ last' = Response("join", u,
                                IF post.status = "active" THEN "AlreadyMember"
                                ELSE "InvalidState")
            /\ inflight' = inflight
            /\ post' = post]_vars

C11_Witness ==
    /\ Exists
    /\ post.status = "active"
    /\ last.op = "join"
    /\ last.resp = "AlreadyMember"
    /\ last.user # post.creator
    /\ Member(last.user)
    /\ tripsJoined[last.user] = <<TripId>>

\* C12: a Leave that is saved removes the user from participants, and sets the
\* status to 'active' only if it was 'full' and the number of participants
\* after the removal is below maxParticipants; otherwise the status stays.
\* Stated for trips that are not completed or cancelled when the save arrives.
C12_LeaveReopensOnlyBelowCapacity ==
    [][\A q \in BagToSet(inflight) :
        (~Terminal(post.status) /\ LeaveSave(q) /\ post' # post) =>
            /\ ~includes(post'.participants, q.user)
            /\ post'.status =
                 IF /\ post.status = "full"
                    /\ Len(post'.participants) < post.maxParticipants
                 THEN "active" ELSE post.status]_vars

\* C13: a Leave by the creator ends with CreatorCannotLeave, a Leave by a user
\* who is neither the creator nor in participants ends with NotMember, in
\* every state of the trip, and neither changes the trip.
C13_LeaveRejections ==
    [][\A u \in Users :
        (Exists /\ (u = post.creator \/ ~Member(u)) /\ LeaveRead(u)) =>
            /\ last' = Response("leave", u,
                                IF u = post.creator THEN "CreatorCannotLeave"
                                ELSE "NotMember")
            /\ inflight' = inflight
            /\ post' = post
            /\ tripsJoined' = tripsJoined]_vars

\* A non-member was refused on a trip that somebody else had joined.
C13_Witness ==
    /\ Exists
    /\ Len(post.participants) >= 2
    /\ last.op = "leave"
    /\ last.resp = "NotMember"
    /\ last.user # post.creator
    /\ ~Member(last.user)

SamePair(r, q) == {r.me, r.other} = {q.me, q.other}

\* C14: of two find-or-create calls made one after the other for the same two
\* users, in either order of the two, the second returns the conversation id
\* the first returned and stores no new conversation.
C14_SecondCallSameChat ==
    [][\A q \in BagToSet(chatInflight) :
        (chatLast.resp = "ok" /\ SamePair(chatLast, q) /\ ChatFind(q)) =>
            /\ chatLast' = ChatResponse(q.me, q.other, "ok", chatLast.chat)
            /\ chats' = chats
            /\ chatInflight' = EmptyBag]_vars

\* The second user asked for the first and got the chat the first had created.
C14_Witness ==
    /\ Len(chats) = 1
    /\ chatLast.resp = "ok"
    /\ chatLast.chat = 1
    /\ chatLast.me # chatLast.other
    /\ chats[1].participants = <<chatLast.other, chatLast.me>>

\* The messages that user u has not read: sent by someone else and not
\* flagged read.
UnreadIn(messages, u) ==
    {i \in 1..Len(messages) : messages[i].sender # u /\ ~messages[i].read}

Unread(c, u) == UnreadIn(chats[c].messages, u)

ReadStaysRead ==
    \A c \in 1..Len(chats) : \A i \in 1..Len(chats[c].messages) :
        chats[c].messages[i].read =>
            /\ i <= Len(chats'[c].messages)
            /\ chats'[c].messages[i].read

\* C15: a read flag never goes back from true to false; once a MarkRead by a
\* reader has returned, the reader has no unread message in the chat, and a
\* second MarkRead by the same reader right after it changes no message.
C15_MarkReadIdempotent ==
    [][/\ ReadStaysRead
       /\ (msgInflight' = EmptyBag /\ msgLast'.op = "read" /\ msgLast'.resp = "ok") =>
              UnreadIn(chats'[msgLast'.chat].messages, msgLast'.user) = {}
       /\ \A q \in BagToSet(msgInflight) :
              (/\ msgLast = MsgResponse("read", q.user, q.chat, "ok", NoMessage)
               /\ MarkReadSave(q)) =>
                  /\ chats' = chats
                  /\ msgLast' = msgLast]_vars

\* The second of two MarkRead calls in a row is about to save, the first
\* having flagged a message read.
C15_Witness ==
    /\ \E q \in BagToSet(msgInflight) :
          /\ q.op = "read"
          /\ msgLast = MsgResponse("read", q.user, q.chat, "ok", NoMessage)
          /\ \E i \in 1..Len(chats[q.chat].messages) :
                /\ chats[q.chat].messages[i].read
                /\ chats[q.chat].messages[i].sender # q.user

BecomesRead(c, i) ==
    /\ i <= Len(chats'[c].messages)
    /\ chats'[c].messages[i].read
    /\ ~(i <= Len(chats[c].messages) /\ chats[c].messages[i].read)

\* C16: a read flag turns true only in the save of a MarkRead made by a
\* participant of the chat other than the message's sender; a MarkRead by a
\* non-participant is Forbidden and changes nothing; a message enters the
\* chat unread.
C16_ReadOnlyByOtherParticipant ==
    [][/\ \A c \in 1..Len(chats) : \A i \in 1..Len(chats'[c].messages) :
              BecomesRead(c, i) =>
                  \E q \in BagToSet(msgInflight) :
                      /\ q.op = "read" /\ q.pc = "save" /\ q.chat = c
                      /\ includes(chats[c].participants, q.user)
                      /\ q.user # chats'[c].messages[i].sender
                      /\ i <= Len(chats[c].messages)
                      /\ msgInflight' = Take(msgInflight, q)
       /\ \A c \in 1..Len(chats), u \in Users :
              (~includes(chats[c].participants, u) /\ MarkReadFind(u, c)) =>
                  /\ msgLast' = MsgResponse("read", u, c, "Forbidden", NoMessage)
                  /\ chats' = chats
                  /\ msgInflight' = msgInflight]_vars

\* A MarkRead by the sender of one message has returned: that message is
\* still unread, a message of the other participant is read.
C16_Witness ==
    /\ msgLast.op = "read"
    /\ msgLast.resp = "ok"
    /\ \E i, j \in 1..Len(chats[msgLast.chat].messages) :
          /\ chats[msgLast.chat].messages[i].sender = msgLast.user
          /\ ~chats[msgLast.chat].messages[i].read
          /\ chats[msgLast.chat].messages[j].sender # msgLast.user
          /\ chats[msgLast.chat].messages[j].read

\* C17: an AppendMessage by a user who is not a participant of the chat fails
\* with Forbidden, one whose content has length 0 or more than 1000 fails with
\* ValidationError, and neither changes the chat.
C17_AppendRejections ==
    [][\A u \in Users, c \in 1..Len(chats), content \in ContentInputs :
          AppendFind(u, c, content) =>
              /\ ~includes(chats[c].participants, u) =>
                    /\ msgLast' = MsgResponse("append", u, c, "Forbidden", NoMessage)
                    /\ chats' = chats /\ msgInflight' = msgInflight
              /\ (length(content) = 0 \/ length(content) > MaxContent) =>
                    /\ msgLast' = MsgResponse("append", u, c, "ValidationError", NoMessage)
                    /\ chats' = chats /\ msgInflight' = msgInflight]_vars

\* C17 as the handler has it: content whose length without the white space
\* around it is 0 or more than 1000 fails with ValidationError whoever sends
\* it; other content sent by a non-participant fails with Forbidden; neither
\* changes the chat, and other content sent by a participant is accepted.
C17_AppendRejectionsTrimmed ==
    [][\A u \in Users, c \in 1..Len(chats), content \in ContentInputs :
          (/\ nmsg' # nmsg
           /\ msgLast' # msgLast => msgLast'.op = "append" /\ msgLast'.user = u
           /\ AppendFind(u, c, content)) =>
              IF content.body = 0 \/ content.body > MaxContent
              THEN /\ msgLast' = MsgResponse("append", u, c, "ValidationError", NoMessage)
                   /\ chats' = chats /\ msgInflight' = msgInflight
              ELSE IF ~includes(chats[c].participants, u)
              THEN /\ msgLast' = MsgResponse("append", u, c, "Forbidden", NoMessage)
                   /\ chats' = chats /\ msgInflight' = msgInflight
              ELSE /\ msgLast' = msgLast
                   /\ chats' = chats /\ msgInflight' # msgInflight]_vars

\* An append to a chat that has a message was refused as Forbidden.
C17_Witness ==
    /\ msgLast.op = "append"
    /\ msgLast.resp = "Forbidden"
    /\ chats[msgLast.chat].messages # <<>>
    /\ ~includes(chats[msgLast.chat].participants, msgLast.user)

\* C18: ListConversations returns the chats of the user, each with an
\* unreadCount equal to the number of its messages sent by someone else and
\* not flagged read.
C18_UnreadCount ==
    [][\A u \in Users :
          ListConversations(u) =>
              /\ {msgLast'.body[k].id : k \in DOMAIN msgLast'.body} =
                    {c \in 1..Len(chats) : \E i \in 1..Len(chats[c].participants) :
                                              chats[c].participants[i] = u}
              /\ \A k \in DOMAIN msgLast'.body :
                    msgLast'.body[k].unreadCount =
                        Cardinality(Unread(msgLast'.body[k].id, u))]_vars

\* A list returned a chat with an unread message and with a message that
\* does not count as unread.
C18_Witness ==
    /\ msgLast.op = "list"
    /\ \E k \in DOMAIN msgLast.body :
          /\ msgLast.body[k].unreadCount >= 1
          /\ Len(chats[msgLast.body[k].id].messages) > msgLast.body[k].unreadCount

\* C19: the registry holds at most one socket per user and the latest join
\* wins: a join of user u on socket s leaves u mapped to s and every other
\* entry as it was, and an entry gets a socket only by a join for that user
\* on that socket.
C19_LatestRegistrationWins ==
    [][/\ \A s \in SocketIds, u \in Users :
              SocketJoin(s, u) => activeUsers' = [activeUsers EXCEPT ![u] = s]
       /\ \A u \in Users :
              (activeUsers'[u] # activeUsers[u] /\ activeUsers'[u] # 0) =>
                  SocketJoin(activeUsers'[u], u)]_vars

\* Two open sockets have joined as the same user; the registry holds one.
C19_Witness ==
    \E u \in Users : \E s1, s2 \in SocketIds :
        /\ s1 # s2
        /\ sockets[s1] = "open" /\ sockets[s2] = "open"
        /\ socketUserId[s1] = u /\ socketUserId[s2] = u
        /\ activeUsers[u] = s2

\* C20: every entry of the registry refers to a socket that is open.
C20_PresenceEntriesOpen ==
    \A u \in Users :
        activeUsers[u] # 0 => sockets[activeUsers[u]] = "open"

\* C21: a sendMessage event emits to the socket the registry holds for the
\* receiver when it holds one and emits nothing otherwise; it changes neither
\* the registry nor the sockets nor any chat.
C21_NotifyOnlyToRegistered ==
    [][\A s \in SocketIds, r \in Users \cup {Ghost} :
          SendMessage(s, r) =>
              /\ emitted' = IF r \in Users /\ activeUsers[r] # 0
                            THEN activeUsers[r] ELSE emitted
              /\ activeUsers' = activeUsers
              /\ socketUserId' = socketUserId
              /\ sockets' = sockets
              /\ chats' = chats]_vars

\* An event went to the socket a user is registered with, and another user
\* has no entry.
C21_Witness ==
    /\ emitted # 0
    /\ \E u \in Users : activeUsers[u] = emitted
    /\ \E u \in Users : activeUsers[u] = 0

\* The users 1..k in this order.
FirstUsers(k) == [i \in 1..k |-> i]

\* The trip of the scenario with its first k participants.
OnPath(k) ==
    /\ post.creator = 1
    /\ post.maxParticipants = ScenarioMax
    /\ post.participants = FirstUsers(k)
    /\ post.currentParticipants = k
    /\ post.status = IF k = ScenarioMax THEN "full" ELSE "active"

\* C22: on a trip of ScenarioMax places created by user 1, the joins of users
\* 2, 3, ... in turn are accepted and each adds the user at the end of the
\* participants; the status stays active until the join that fills the trip,
\* which makes it full; the leave of user 2 that follows is accepted, removes
\* user 2 and makes the status active again.
C22_Scenario ==
    [][/\ \A k \in 1..(ScenarioMax - 1) :
              /\ (OnPath(k) /\ JoinRead(k + 1)) =>
                    inflight' = SetToBag({Req("join", k + 1, "save", JoinDoc(post, k + 1))})
              /\ \A q \in BagToSet(inflight) :
                    (OnPath(k) /\ q.user = k + 1 /\ JoinSave(q)) =>
                        /\ post'.participants = FirstUsers(k + 1)
                        /\ post'.currentParticipants = k + 1
                        /\ post'.status = IF k + 1 = ScenarioMax THEN "full" ELSE "active"
       /\ (OnPath(ScenarioMax) /\ LeaveRead(2)) =>
              inflight' = SetToBag({Req("leave", 2, "save", LeaveDoc(post, 2))})
       /\ \A q \in BagToSet(inflight) :
              (OnPath(ScenarioMax) /\ q.user = 2 /\ LeaveSave(q)) =>
                  /\ post'.participants = <<1>> \o [i \in 1..(ScenarioMax - 2) |-> i + 2]
                  /\ post'.currentParticipants = ScenarioMax - 1
                  /\ post'.status = "active"]_vars

\* The end of the scenario: user 2 has left the trip that was full.
C22_Witness ==
    /\ nreq = ScenarioMax
    /\ post.creator = 1
    /\ post.maxParticipants = ScenarioMax
    /\ post.participants = <<1>> \o [i \in 1..(ScenarioMax - 2) |-> i + 2]
    /\ post.status = "active"
    /\ last = Response("leave", 2, "ok")

\* The positions of the message with this id in chat c.
PositionsOf(messages, id) == {i \in 1..Len(messages) : messages[i].id = id}

\* C23: when an append returns success its message is in the chat exactly
\* once, and no step removes, replaces or repeats a stored message: a stored
\* message keeps its place, sender, content and timestamp.
C23_NoAcknowledgedMessageLost ==
    [][/\ \A q \in BagToSet(msgInflight) :
              AppendRespond(q) =>
                  Cardinality(PositionsOf(chats'[q.chat].messages, q.msg.id)) = 1
       /\ \A c \in 1..Len(chats) : \A i \in 1..Len(chats[c].messages) :
              /\ i <= Len(chats'[c].messages)
              /\ chats'[c].messages[i].id = chats[c].messages[i].id
              /\ chats'[c].messages[i].sender = chats[c].messages[i].sender
              /\ chats'[c].messages[i].content = chats[c].messages[i].content
              /\ chats'[c].messages[i].timestamp = chats[c].messages[i].timestamp
       /\ \A c \in 1..Len(chats) : \A i, j \in 1..Len(chats'[c].messages) :
              chats'[c].messages[i].id = chats'[c].messages[j].id => i = j]_vars

\* Two appends by the two participants overlapped, the later request saved
\* first, a mark-read flagged its message, and every request has returned.
C23_Witness ==
    /\ msgInflight = EmptyBag
    /\ Len(chats[1].messages) = 2
    /\ chats[1].messages[1].id > chats[1].messages[2].id
    /\ chats[1].messages[1].sender # chats[1].messages[2].sender
    /\ chats[1].messages[1].read

\* C24: in a chat with a message, lastMessage equals the timestamp of the
\* last message, and the timestamps do not decrease along the messages.
C24_LastMessageIsLastTimestamp ==
    \A c \in 1..Len(chats) :
        chats[c].messages # <<>> =>
            /\ chats[c].lastMessage =
                  chats[c].messages[Len(chats[c].messages)].timestamp
            /\ \A i, j \in 1..Len(chats[c].messages) :
                  i < j => chats[c].messages[i].timestamp <= chats[c].messages[j].timestamp

\* C25: once every request has returned, the trip is in the tripsJoined of a
\* user other than the creator exactly once when the user is among the
\* participants, and not at all otherwise.
C25_TripsJoinedMatchesRoster ==
    (Exists /\ inflight = EmptyBag) =>
        \A u \in Users :
            u # post.creator =>
                Cardinality({i \in 1..Len(tripsJoined[u]) : tripsJoined[u][i] = TripId})
                    = IF Member(u) THEN 1 ELSE 0

====
